---- MODULE Spec2Model ----
(***************************************************************************)
(* A model of nodegit-flow's hotfix and release workflows:                 *)
(*   Hotfix.startHotfix / Hotfix.finishHotfix                              *)
(*   Release.startRelease / Release.finishRelease                          *)
(* Each call is a promise chain; every action below is one handler of the  *)
(* chain, run when the operation it waits for settles.  The repository     *)
(* (branches, HEAD, tags, commits) is the state the version-control engine *)
(* keeps.  The helpers the two classes call but do not define              *)
(* (Config.getConfig, utils.Repo.merge, utils.InjectIntermediateCallback,  *)
(* utils.Tag.create, utils.Repo.safelyDeleteBranch and the NodeGit         *)
(* primitives) are modelled from their description in the specification.   *)
(***************************************************************************)
EXTENDS Naturals, Sequences, FiniteSets, TLC

VARIABLES
  branches,   \* local branch name -> commit id it targets
  head,       \* the branch name HEAD points at
  tags,       \* tag name -> the object id the tag was created at
  parents,    \* commit id -> sequence of parent commit ids
  config,     \* the gitflow configuration, key -> string
  call,       \* the arguments of the call in progress
  pc,         \* the handler of the promise chain that runs next
  l,          \* the closure variables of the call (the `let`s of the function)
  value,      \* the value the promise chain currently carries
  ret,        \* the value the returned promise resolved with
  err,        \* the error the returned promise rejected with
  created,    \* the branch the promise of start resolved with
  log,        \* the calls made to the engine and to the hooks, in order
  pre         \* the repository as it was when the call was made

vars == <<branches, head, tags, parents, config, call, pc, l, value, ret, created, err,
          log, pre>>
repoVars == <<branches, head, tags, parents>>

\* Number of commits the repository holds before the call.
NumCommits == 3

\* `undefined`: what Promise.resolve() and a hook without a return carry.
Undefined == 0

InitialCommits == 1..NumCommits

\* The version strings a caller passes; "" also stands for an absent version
\* (both are falsy in `!hotfixVersion`).
Versions == {"", "1.0"}

Kinds == {"hotfix", "release"}

DefaultConfig ==
  [k \in {"gitflow.branch.master", "gitflow.branch.develop", "gitflow.prefix.hotfix",
          "gitflow.prefix.release", "gitflow.prefix.versiontag"} |->
     CASE k = "gitflow.branch.master" -> "master"
       [] k = "gitflow.branch.develop" -> "develop"
       [] k = "gitflow.prefix.hotfix" -> "hotfix/"
       [] k = "gitflow.prefix.release" -> "release/"
       [] k = "gitflow.prefix.versiontag" -> "v"]

\* JavaScript's `!x` on a repository handle (here TRUE iff one was passed).
MissingRepo(repo) == repo = FALSE

\* Mutant: the version guard is missing.
MissingVersion_Unchecked(version) == FALSE

\* JavaScript's `!x` on a version string.
MissingVersion(version) == version = ""

\* Hotfix.finishHotfix: the names read from the configuration snapshot.
HotfixFinishNames(cfg, version) ==
  [developBranchName |-> cfg["gitflow.branch.develop"],
   workflowBranchName |-> cfg["gitflow.prefix.hotfix"] \o version,
   masterBranchName |-> cfg["gitflow.branch.master"],
   versionPrefix |-> cfg["gitflow.prefix.versiontag"]]

\* Mutant: finishRelease takes the develop name for master and the master name
\* for develop.
ReleaseFinishNames_Swapped(cfg, version) ==
  [developBranchName |-> cfg["gitflow.branch.master"],
   workflowBranchName |-> cfg["gitflow.prefix.release"] \o version,
   masterBranchName |-> cfg["gitflow.branch.develop"],
   versionPrefix |-> cfg["gitflow.prefix.versiontag"]]

\* Release.finishRelease: the names read from the configuration snapshot.
ReleaseFinishNames(cfg, version) ==
  [developBranchName |-> cfg["gitflow.branch.develop"],
   workflowBranchName |-> cfg["gitflow.prefix.release"] \o version,
   masterBranchName |-> cfg["gitflow.branch.master"],
   versionPrefix |-> cfg["gitflow.prefix.versiontag"]]

FinishNames(kind, cfg, version) ==
  IF kind = "hotfix" THEN HotfixFinishNames(cfg, version)
  ELSE ReleaseFinishNames(cfg, version)

\* commit.id().toString(): the hexadecimal text of an object id.
IdToString(id) == <<"oid", id>>

\* NodeGit.Oid.fromString(text): the object id a text denotes.
OidFromString(text) == text[2]

\* Mutant: the develop merge is cancelled by onlyMaster alone.
CancelDevelopMerge_OnlyMasterOnly(onlyMaster, developCommit, workflowCommit) ==
  onlyMaster

\* Mutant: the develop merge is cancelled by equal commits alone.
CancelDevelopMerge_IgnoresOnlyMaster(onlyMaster, developCommit, workflowCommit) ==
  IdToString(developCommit) = IdToString(workflowCommit)

\* cancelDevelopMerge =
\*   onlyMaster || developCommit.id().toString() === workflowCommit.id().toString()
CancelDevelopMerge(onlyMaster, developCommit, workflowCommit) ==
  onlyMaster \/ IdToString(developCommit) = IdToString(workflowCommit)

\* Mutant: the master merge is never cancelled.
CancelMasterMerge_Never(masterCommit, workflowCommit) == FALSE

\* cancelMasterMerge = masterCommit.id().toString() === workflowCommit.id().toString()
CancelMasterMerge(masterCommit, workflowCommit) ==
  IdToString(masterCommit) = IdToString(workflowCommit)

\* Mutant: the version is left out of the tag name.
TagName_PrefixOnly(versionPrefix, version) == versionPrefix

\* const tagName = versionPrefix + version
TagName(versionPrefix, version) == versionPrefix \o version

\* The closure variables before any handler has assigned them.
NoLocals ==
  [developBranchName |-> "", workflowBranchName |-> "", masterBranchName |-> "",
   versionPrefix |-> "",
   developCommit |-> Undefined, workflowCommit |-> Undefined, masterCommit |-> Undefined,
   cancelDevelopMerge |-> FALSE, cancelMasterMerge |-> FALSE,
   mergeCommit |-> Undefined, tagName |-> "", oid |-> Undefined,
   oldHead |-> Undefined, newBranch |-> "", baseBranch |-> ""]

\* The arguments of a call before any call is made.  `hooks` is TRUE when the
\* caller passed the callbacks and FALSE when the options leave every hook at
\* its default `() => {}`, which returns undefined and never throws.  The
\* options message, processMergeMessageCallback and signingCallback are handed
\* to the engine unread and are left out.
NoCall ==
  [fn |-> "none", kind |-> "hotfix", repo |-> FALSE, version |-> "",
   keepBranch |-> FALSE, onlyMaster |-> FALSE, hooks |-> FALSE, sha |-> Undefined]

\* The repositories a call may find: develop and master exist, each workflow
\* branch of version 1.0 may or may not, HEAD is on one of the branches.
Init ==
  /\ \E d \in InitialCommits, m \in InitialCommits,
        h \in InitialCommits \cup {Undefined}, r \in InitialCommits \cup {Undefined} :
       branches = [n \in {"develop", "master"}
                          \cup (IF h = Undefined THEN {} ELSE {"hotfix/1.0"})
                          \cup (IF r = Undefined THEN {} ELSE {"release/1.0"}) |->
                     CASE n = "develop" -> d
                       [] n = "master" -> m
                       [] n = "hotfix/1.0" -> h
                       [] n = "release/1.0" -> r]
  /\ head \in DOMAIN branches
  /\ tags = <<>>
  /\ parents = [c \in InitialCommits |-> <<>>]
  /\ config = DefaultConfig
  /\ call = NoCall
  /\ pc = "idle"
  /\ l = NoLocals
  /\ value = Undefined
  /\ ret = Undefined
  /\ created = ""
  /\ err = "none"
  /\ log = <<>>
  /\ pre = [branches |-> branches, head |-> head, tags |-> tags, config |-> config]

\* The promise rejects with error e: no later handler of the chain runs.
Reject(e) ==
  /\ pc' = "failed"
  /\ err' = e

\* The repository and the configuration as a call finds them.
Snapshot == [branches |-> branches, head |-> head, tags |-> tags, config |-> config]

(***************************************************************************)
(* finishHotfix / finishRelease                                            *)
(***************************************************************************)

\* The synchronous part of finish: options are destructured, the two guards
\* run, and Config.getConfig(repo) is called.
FinishCall(kind, repo, version, keepBranch, onlyMaster, hooks) ==
  /\ pc = "idle"
  /\ call' = [NoCall EXCEPT !.fn = "finish", !.kind = kind, !.repo = repo,
                            !.version = version, !.keepBranch = keepBranch,
                            !.onlyMaster = onlyMaster, !.hooks = hooks]
  /\ pre' = Snapshot
  /\ IF MissingRepo(repo) THEN Reject("MissingRepository") /\ UNCHANGED log
     ELSE IF MissingVersion(version) THEN Reject("MissingVersion") /\ UNCHANGED log
     ELSE /\ pc' = "finish.getConfig"
          /\ log' = Append(log, <<"getConfig">>)
          /\ UNCHANGED err
  /\ UNCHANGED <<repoVars, config, l, value, ret, created>>

\* Config.getConfig settled.  On success the handler stores the four names
\* and starts the three branch lookups.
FinishConfigResolved ==
  /\ pc = "finish.getConfig"
  /\ \/ /\ Reject("ConfigFailure")
        /\ UNCHANGED <<l, log>>
     \/ /\ LET names == FinishNames(call.kind, config, call.version) IN
             /\ l' = [l EXCEPT !.developBranchName = names.developBranchName,
                               !.workflowBranchName = names.workflowBranchName,
                               !.masterBranchName = names.masterBranchName,
                               !.versionPrefix = names.versionPrefix]
             /\ log' = log \o << <<"getConfig.done", config>>,
                                 <<"lookup", names.developBranchName>>,
                                 <<"lookup", names.workflowBranchName>>,
                                 <<"lookup", names.masterBranchName>> >>
        /\ pc' = "finish.lookup"
        /\ UNCHANGED err
  /\ UNCHANGED <<repoVars, config, call, value, ret, created, pre>>

(***************************************************************************)
(* The engine and the helpers, as the specification describes them.        *)
(***************************************************************************)

\* NodeGit.Branch.lookup(repo, name, LOCAL): resolves iff the name exists.
BranchExists(name) == name \in DOMAIN branches

\* The id the engine gives the next commit it creates.
NewCommitId == Cardinality(DOMAIN parents) + 1

\* utils.Repo.merge(intoBranch, fromBranch, ...): a new merge commit whose
\* parents are the two branch targets; intoBranch moves to it.
MergedBranches(into, from) == [branches EXCEPT ![into] = NewCommitId]

MergedParents(into, from) ==
  [c \in DOMAIN parents \cup {NewCommitId} |->
     IF c = NewCommitId THEN <<branches[into], branches[from]>> ELSE parents[c]]

\* What a hook that was passed by the caller may resolve with, given the
\* value v handed to it: nothing, v itself, or another commit.
SuppliedHookResults(v) == {Undefined, v, l.workflowCommit}

\* The default hook is `() => {}`: it resolves with undefined.
HookResults(hooks, v) == IF hooks THEN SuppliedHookResults(v) ELSE {Undefined}

\* utils.InjectIntermediateCallback(callback): the value the chain carries
\* after the callback, given the value passed in and the callback's result.
InjectIntermediateCallback(passed, hookResult) == hookResult

\* utils.Tag.create(oid, tagName, message, repo): the tag tagName at oid.
TagCreate(oid, tagName) ==
  [t \in DOMAIN tags \cup {tagName} |-> IF t = tagName THEN oid ELSE tags[t]]

\* Three branch lookups settled (Promise.all).  It rejects if any of the names
\* does not resolve; otherwise the handler starts the three commit lookups.
FinishBranchesResolved ==
  /\ pc = "finish.lookup"
  /\ IF /\ BranchExists(l.developBranchName)
        /\ BranchExists(l.workflowBranchName)
        /\ BranchExists(l.masterBranchName)
     THEN /\ pc' = "finish.getCommit"
          /\ log' = log \o << <<"getCommit", branches[l.developBranchName]>>,
                              <<"getCommit", branches[l.workflowBranchName]>>,
                              <<"getCommit", branches[l.masterBranchName]>> >>
          /\ UNCHANGED err
     ELSE /\ Reject("BranchNotFound")
          /\ UNCHANGED log
  /\ UNCHANGED <<repoVars, config, call, l, value, ret, created, pre>>

\* Three commit lookups settled.  On success the handler stores the commits,
\* takes the two cancellation decisions and either calls
\* beforeMergeCallback(develop, workflow) or returns Promise.resolve().
FinishCommitsResolved ==
  /\ pc = "finish.getCommit"
  /\ \/ /\ Reject("CommitResolutionFailure")
        /\ UNCHANGED <<l, log, value>>
     \/ LET d == branches[l.developBranchName]
            w == branches[l.workflowBranchName]
            m == branches[l.masterBranchName]
            cancelDevelop == CancelDevelopMerge(call.onlyMaster, d, w)
        IN
        /\ l' = [l EXCEPT !.developCommit = d, !.workflowCommit = w, !.masterCommit = m,
                          !.cancelDevelopMerge = cancelDevelop,
                          !.cancelMasterMerge = CancelMasterMerge(m, w)]
        /\ IF ~cancelDevelop
           THEN /\ pc' = "finish.beforeDevelop"
                /\ log' = Append(log, <<"beforeMergeCallback", l.developBranchName,
                                        l.workflowBranchName>>)
                /\ UNCHANGED value
           ELSE /\ pc' = "finish.developDone"
                /\ value' = Undefined
                /\ UNCHANGED log
        /\ UNCHANGED err
  /\ UNCHANGED <<repoVars, config, call, ret, created, pre>>

\* Mutant: the develop merge is called but its promise is not returned from the
\* handler, so the chain goes on to the master step without waiting for it.
FinishBeforeDevelopSettled_NotChained ==
  /\ pc = "finish.beforeDevelop"
  /\ pc' = "finish.developDone"
  /\ value' = Undefined
  /\ log' = log \o << <<"beforeMergeCallback.done", l.developBranchName>>,
                      <<"merge", l.developBranchName, l.workflowBranchName>> >>
  /\ UNCHANGED <<repoVars, config, call, l, ret, created, err, pre>>

\* Mutant: the develop merge is started together with the callback and not
\* after it, so it has landed when the callback's failure rejects the call.
FinishBeforeDevelopSettled_MergesAlongside ==
  /\ pc = "finish.beforeDevelop"
  /\ \/ /\ call.hooks
        /\ Reject("CallbackError")
        /\ branches' = MergedBranches(l.developBranchName, l.workflowBranchName)
        /\ parents' = MergedParents(l.developBranchName, l.workflowBranchName)
        /\ UNCHANGED log
     \/ /\ pc' = "finish.mergeDevelop"
        /\ log' = log \o << <<"beforeMergeCallback.done", l.developBranchName>>,
                            <<"merge", l.developBranchName, l.workflowBranchName>> >>
        /\ UNCHANGED <<err, branches, parents>>
  /\ UNCHANGED <<head, tags, config, call, l, value, ret, created, pre>>

\* beforeMergeCallback(develop, workflow) settled; its result is dropped.  If
\* it resolved, utils.Repo.merge(developBranch, workflowBranch, ...) is called.
FinishBeforeDevelopSettled ==
  /\ pc = "finish.beforeDevelop"
  /\ \/ /\ call.hooks
        /\ Reject("CallbackError")
        /\ UNCHANGED log
     \/ /\ pc' = "finish.mergeDevelop"
        /\ log' = log \o << <<"beforeMergeCallback.done", l.developBranchName>>,
                            <<"merge", l.developBranchName, l.workflowBranchName>> >>
        /\ UNCHANGED err
  /\ UNCHANGED <<repoVars, config, call, l, value, ret, created, pre>>

\* The develop merge settled.  On success develop points at the new merge
\* commit, which is handed to postDevelopMergeCallback.
FinishDevelopMerged ==
  /\ pc = "finish.mergeDevelop"
  /\ \/ /\ Reject("MergeFailure")
        /\ UNCHANGED <<branches, parents, l, value, log>>
     \/ /\ branches' = MergedBranches(l.developBranchName, l.workflowBranchName)
        /\ parents' = MergedParents(l.developBranchName, l.workflowBranchName)
        /\ value' = NewCommitId
        /\ log' = log \o << <<"merge.done", l.developBranchName, NewCommitId>>,
                            <<"postDevelopMergeCallback", NewCommitId>> >>
        /\ pc' = "finish.postDevelop"
        /\ UNCHANGED <<err, l>>
  /\ UNCHANGED <<head, tags, config, call, ret, created, pre>>

\* postDevelopMergeCallback settled: the chain goes on with what
\* InjectIntermediateCallback makes of its result.
FinishPostDevelopSettled ==
  /\ pc = "finish.postDevelop"
  /\ \/ /\ call.hooks
        /\ Reject("CallbackError")
        /\ UNCHANGED <<value, log>>
     \/ /\ \E r \in HookResults(call.hooks, value) :
             /\ value' = InjectIntermediateCallback(value, r)
             /\ log' = Append(log, <<"postDevelopMergeCallback.done", r>>)
        /\ pc' = "finish.developDone"
        /\ UNCHANGED err
  /\ UNCHANGED <<repoVars, config, call, l, ret, created, pre>>

\* Mutant: the handler stores the commit the develop merge created, not the
\* value the develop step settled with.
FinishDevelopStepDone_StoresMergeCommit ==
  /\ pc = "finish.developDone"
  /\ LET tagName == TagName(l.versionPrefix, call.version)
         merged == IF l.cancelDevelopMerge THEN Undefined
                   ELSE branches[l.developBranchName]
     IN
       IF ~l.cancelMasterMerge
       THEN /\ l' = [l EXCEPT !.mergeCommit = merged, !.tagName = tagName]
            /\ pc' = "finish.beforeMaster"
            /\ log' = Append(log, <<"beforeMergeCallback", l.masterBranchName,
                                    l.workflowBranchName>>)
       ELSE /\ l' = [l EXCEPT !.mergeCommit = merged, !.tagName = tagName,
                              !.oid = l.masterCommit]
            /\ pc' = "finish.tag"
            /\ log' = Append(log, <<"Tag.create", l.masterCommit, tagName>>)
  /\ UNCHANGED <<repoVars, config, call, value, ret, created, err, pre>>

\* Mutant: the handler calls the master merge without calling
\* beforeMergeCallback first.
FinishDevelopStepDone_SkipsCallback ==
  /\ pc = "finish.developDone"
  /\ LET tagName == TagName(l.versionPrefix, call.version) IN
       IF ~l.cancelMasterMerge
       THEN /\ l' = [l EXCEPT !.mergeCommit = value, !.tagName = tagName]
            /\ pc' = "finish.mergeMaster"
            /\ log' = Append(log, <<"merge", l.masterBranchName,
                                    l.workflowBranchName>>)
       ELSE LET masterOid == OidFromString(IdToString(l.masterCommit)) IN
            /\ l' = [l EXCEPT !.mergeCommit = value, !.tagName = tagName,
                              !.oid = masterOid]
            /\ pc' = "finish.tag"
            /\ log' = Append(log, <<"Tag.create", masterOid, tagName>>)
  /\ UNCHANGED <<repoVars, config, call, value, ret, created, err, pre>>

\* The develop step settled with `value`.  The handler stores it as mergeCommit,
\* computes the tag name, and either calls beforeMergeCallback(master, workflow)
\* or, the master merge being cancelled, calls Tag.create at master's commit.
FinishDevelopStepDone ==
  /\ pc = "finish.developDone"
  /\ LET tagName == TagName(l.versionPrefix, call.version) IN
       IF ~l.cancelMasterMerge
       THEN /\ l' = [l EXCEPT !.mergeCommit = value, !.tagName = tagName]
            /\ pc' = "finish.beforeMaster"
            /\ log' = Append(log, <<"beforeMergeCallback", l.masterBranchName,
                                    l.workflowBranchName>>)
       ELSE LET masterOid == OidFromString(IdToString(l.masterCommit)) IN
            /\ l' = [l EXCEPT !.mergeCommit = value, !.tagName = tagName,
                              !.oid = masterOid]
            /\ pc' = "finish.tag"
            /\ log' = Append(log, <<"Tag.create", masterOid, tagName>>)
  /\ UNCHANGED <<repoVars, config, call, value, ret, created, err, pre>>

\* beforeMergeCallback(master, workflow) settled; its result is dropped.  If it
\* resolved, utils.Repo.merge(masterBranch, workflowBranch, ...) is called.
FinishBeforeMasterSettled ==
  /\ pc = "finish.beforeMaster"
  /\ \/ /\ call.hooks
        /\ Reject("CallbackError")
        /\ UNCHANGED log
     \/ /\ pc' = "finish.mergeMaster"
        /\ log' = log \o << <<"beforeMergeCallback.done", l.masterBranchName>>,
                            <<"merge", l.masterBranchName, l.workflowBranchName>> >>
        /\ UNCHANGED err
  /\ UNCHANGED <<repoVars, config, call, l, value, ret, created, pre>>

\* Mutant: a failed master merge is tried again from beforeMergeCallback.
FinishMasterMerged_Retries ==
  /\ pc = "finish.mergeMaster"
  /\ \/ /\ pc' = "finish.beforeMaster"
        /\ log' = Append(log, <<"beforeMergeCallback", l.masterBranchName,
                                l.workflowBranchName>>)
        /\ UNCHANGED <<branches, parents, l, value, err>>
     \/ /\ branches' = MergedBranches(l.masterBranchName, l.workflowBranchName)
        /\ parents' = MergedParents(l.masterBranchName, l.workflowBranchName)
        /\ value' = NewCommitId
        /\ log' = log \o << <<"merge.done", l.masterBranchName, NewCommitId>>,
                            <<"postMasterMergeCallback", NewCommitId>> >>
        /\ pc' = "finish.postMaster"
        /\ UNCHANGED <<err, l>>
  /\ UNCHANGED <<head, tags, config, call, ret, created, pre>>

\* Mutant: a failed master merge is compensated by moving develop back to the
\* commit it had before the develop merge.
FinishMasterMerged_Compensates ==
  /\ pc = "finish.mergeMaster"
  /\ \/ /\ Reject("MergeFailure")
        /\ branches' = [branches EXCEPT ![l.developBranchName] = l.developCommit]
        /\ UNCHANGED <<parents, l, value, log>>
     \/ /\ branches' = MergedBranches(l.masterBranchName, l.workflowBranchName)
        /\ parents' = MergedParents(l.masterBranchName, l.workflowBranchName)
        /\ value' = NewCommitId
        /\ log' = log \o << <<"merge.done", l.masterBranchName, NewCommitId>>,
                            <<"postMasterMergeCallback", NewCommitId>> >>
        /\ pc' = "finish.postMaster"
        /\ UNCHANGED <<err, l>>
  /\ UNCHANGED <<head, tags, config, call, ret, created, pre>>

\* The master merge settled.  On success master points at the new merge
\* commit, which is handed to postMasterMergeCallback.
FinishMasterMerged ==
  /\ pc = "finish.mergeMaster"
  /\ \/ /\ Reject("MergeFailure")
        /\ UNCHANGED <<branches, parents, l, value, log>>
     \/ /\ branches' = MergedBranches(l.masterBranchName, l.workflowBranchName)
        /\ parents' = MergedParents(l.masterBranchName, l.workflowBranchName)
        /\ value' = NewCommitId
        /\ log' = log \o << <<"merge.done", l.masterBranchName, NewCommitId>>,
                            <<"postMasterMergeCallback", NewCommitId>> >>
        /\ pc' = "finish.postMaster"
        /\ UNCHANGED <<err, l>>
  /\ UNCHANGED <<head, tags, config, call, ret, created, pre>>

\* postMasterMergeCallback settled: what InjectIntermediateCallback makes of
\* its result is the oid handed to Tag.create.
FinishPostMasterSettled ==
  /\ pc = "finish.postMaster"
  /\ \/ /\ call.hooks
        /\ Reject("CallbackError")
        /\ UNCHANGED <<value, l, log>>
     \/ /\ \E r \in HookResults(call.hooks, value) :
             LET oid == InjectIntermediateCallback(value, r) IN
               /\ value' = oid
               /\ l' = [l EXCEPT !.oid = oid]
               /\ log' = log \o << <<"postMasterMergeCallback.done", r>>,
                                   <<"Tag.create", oid, l.tagName>> >>
        /\ pc' = "finish.tag"
        /\ UNCHANGED err
  /\ UNCHANGED <<repoVars, config, call, ret, created, pre>>

\* Mutant: the test of keepBranch is inverted.
KeepBranch_Inverted(keepBranch) == ~keepBranch

\* if (keepBranch): JavaScript's truthiness of the keepBranch option.
KeepBranch(keepBranch) == keepBranch

\* Mutant: the cleanup handler also runs when Tag.create rejected.
FinishTagged_CleansUpAnyway ==
  /\ pc = "finish.tag"
  /\ \/ /\ IF KeepBranch(call.keepBranch)
           THEN /\ Reject("TagCreationFailure")
                /\ UNCHANGED log
           ELSE /\ pc' = "finish.delete"
                /\ log' = Append(log, <<"safelyDeleteBranch", l.workflowBranchName,
                                        l.masterBranchName>>)
                /\ UNCHANGED err
        /\ UNCHANGED tags
     \/ /\ tags' = TagCreate(l.oid, l.tagName)
        /\ IF KeepBranch(call.keepBranch)
           THEN /\ pc' = "finish.return"
                /\ log' = Append(log, <<"Tag.create.done", l.oid, l.tagName>>)
           ELSE /\ pc' = "finish.delete"
                /\ log' = log \o << <<"Tag.create.done", l.oid, l.tagName>>,
                                    <<"safelyDeleteBranch", l.workflowBranchName,
                                      l.masterBranchName>> >>
        /\ UNCHANGED err
  /\ UNCHANGED <<branches, head, parents, config, call, l, value, ret, created, pre>>

\* Mutant: the cleanup handler deletes the branch itself instead of calling
\* safelyDeleteBranch.
FinishTagged_DeletesDirectly ==
  /\ pc = "finish.tag"
  /\ \/ /\ Reject("TagCreationFailure")
        /\ UNCHANGED <<tags, log>>
     \/ /\ tags' = TagCreate(l.oid, l.tagName)
        /\ IF KeepBranch(call.keepBranch)
           THEN /\ pc' = "finish.return"
                /\ log' = Append(log, <<"Tag.create.done", l.oid, l.tagName>>)
           ELSE /\ pc' = "finish.deleteBranch"
                /\ log' = log \o << <<"Tag.create.done", l.oid, l.tagName>>,
                                    <<"safelyDeleteBranch", l.workflowBranchName,
                                      l.masterBranchName>> >>
        /\ UNCHANGED err
  /\ UNCHANGED <<branches, head, parents, config, call, l, value, ret, created, pre>>

\* Mutant: the cleanup handler reads the configuration again for the names it
\* hands to safelyDeleteBranch.
FinishTagged_RereadsConfig ==
  /\ pc = "finish.tag"
  /\ \/ /\ Reject("TagCreationFailure")
        /\ UNCHANGED <<tags, log>>
     \/ /\ tags' = TagCreate(l.oid, l.tagName)
        /\ IF KeepBranch(call.keepBranch)
           THEN /\ pc' = "finish.return"
                /\ log' = Append(log, <<"Tag.create.done", l.oid, l.tagName>>)
           ELSE /\ pc' = "finish.delete"
                /\ log' = log \o
                     << <<"Tag.create.done", l.oid, l.tagName>>,
                        <<"safelyDeleteBranch",
                          FinishNames(call.kind, config, call.version).workflowBranchName,
                          FinishNames(call.kind, config, call.version).masterBranchName>> >>
        /\ UNCHANGED err
  /\ UNCHANGED <<branches, head, parents, config, call, l, value, ret, created, pre>>

\* Tag.create settled.  On success the handler either keeps the workflow branch
\* (keepBranch) or calls utils.Repo.safelyDeleteBranch.
FinishTagged ==
  /\ pc = "finish.tag"
  /\ \/ /\ Reject("TagCreationFailure")
        /\ UNCHANGED <<tags, log>>
     \/ /\ tags' = TagCreate(l.oid, l.tagName)
        /\ IF KeepBranch(call.keepBranch)
           THEN /\ pc' = "finish.return"
                /\ log' = Append(log, <<"Tag.create.done", l.oid, l.tagName>>)
           ELSE /\ pc' = "finish.delete"
                /\ log' = log \o << <<"Tag.create.done", l.oid, l.tagName>>,
                                    <<"safelyDeleteBranch", l.workflowBranchName,
                                      l.masterBranchName>> >>
        /\ UNCHANGED err
  /\ UNCHANGED <<branches, head, parents, config, call, l, value, ret, created, pre>>

\* The branches that are left when `name` is deleted.
WithoutBranch(name) == [n \in DOMAIN branches \ {name} |-> branches[n]]

\* utils.Repo.safelyDeleteBranch(repo, branchName, fallbackBranchName, hook):
\* if HEAD is on the branch, the fallback branch is checked out first.
SafelyDeleteCheckout ==
  /\ pc = "finish.delete"
  /\ IF head = l.workflowBranchName
     THEN \/ /\ Reject("CheckoutFailure")
             /\ UNCHANGED <<head, log, l>>
          \/ /\ head' = l.masterBranchName
             /\ l' = [l EXCEPT !.oldHead = branches[head]]
             /\ log' = log \o << <<"checkoutBranch", l.masterBranchName>>,
                                 <<"postCheckoutHook", branches[head],
                                   branches[l.masterBranchName]>> >>
             /\ pc' = "finish.deleteHook"
             /\ UNCHANGED err
     ELSE /\ pc' = "finish.deleteBranch"
          /\ UNCHANGED <<head, log, l, err>>
  /\ UNCHANGED <<branches, tags, parents, config, call, value, ret, created, pre>>

\* postCheckoutHook(oldHeadTarget, newHeadTarget) settled inside
\* safelyDeleteBranch.
SafelyDeleteHookSettled ==
  /\ pc = "finish.deleteHook"
  /\ \/ /\ call.hooks
        /\ Reject("CallbackError")
     \/ /\ pc' = "finish.deleteBranch"
        /\ UNCHANGED err
  /\ UNCHANGED <<repoVars, config, call, l, value, ret, created, log, pre>>

\* The branch deletion of safelyDeleteBranch settled.
SafelyDeleteBranch ==
  /\ pc = "finish.deleteBranch"
  /\ \/ /\ Reject("BranchDeletionFailure")
        /\ UNCHANGED <<branches, log>>
     \/ /\ branches' = WithoutBranch(l.workflowBranchName)
        /\ log' = Append(log, <<"deleteBranch.done", l.workflowBranchName>>)
        /\ pc' = "finish.return"
        /\ UNCHANGED err
  /\ UNCHANGED <<head, tags, parents, config, call, l, value, ret, created, pre>>

\* Mutant: finish resolves with the value of the master step.
FinishResult_MasterValue(mergeCommit, masterValue) == masterValue

\* .then(() => mergeCommit): of the develop step's outcome and the value the
\* master step handed on, finish resolves with the former.
FinishResult(mergeCommit, masterValue) == mergeCommit

\* The last handler of finish.
FinishReturn ==
  /\ pc = "finish.return"
  /\ ret' = FinishResult(l.mergeCommit, l.oid)
  /\ pc' = "done"
  /\ UNCHANGED <<repoVars, config, call, l, value, created, err, log, pre>>

(***************************************************************************)
(* startHotfix / startRelease                                              *)
(***************************************************************************)

\* A sha that names no commit of the repository.
UnknownSha == NumCommits + 1

\* The sha option of start: absent, a commit of the repository, or unknown.
Shas == {Undefined, NumCommits, UnknownSha}

\* Hotfix.startHotfix: the new branch's name and the base branch's name.
HotfixStartNames(cfg, version) ==
  [newBranch |-> cfg["gitflow.prefix.hotfix"] \o version,
   baseBranch |-> cfg["gitflow.branch.master"]]

\* Release.startRelease: the new branch's name and the base branch's name.
ReleaseStartNames(cfg, version) ==
  [newBranch |-> cfg["gitflow.prefix.release"] \o version,
   baseBranch |-> cfg["gitflow.branch.develop"]]

StartNames(kind, cfg, version) ==
  IF kind = "hotfix" THEN HotfixStartNames(cfg, version)
  ELSE ReleaseStartNames(cfg, version)

\* Mutant: the sha option is never looked up.
StartUsesSha_Never(kind, sha) == FALSE

\* Whether start looks the sha option up instead of the base branch:
\* startRelease tests `if (sha)`, startHotfix does not read options.sha.
StartUsesSha(kind, sha) == kind = "release" /\ sha # Undefined

\* The synchronous part of start: the two guards, then Config.getConfig(repo).
StartCall(kind, repo, version, sha, hooks) ==
  /\ pc = "idle"
  /\ call' = [NoCall EXCEPT !.fn = "start", !.kind = kind, !.repo = repo,
                            !.version = version, !.sha = sha, !.hooks = hooks]
  /\ pre' = Snapshot
  /\ IF MissingRepo(repo) THEN Reject("MissingRepository") /\ UNCHANGED log
     ELSE IF MissingVersion(version) THEN Reject("MissingVersion") /\ UNCHANGED log
     ELSE /\ pc' = "start.getConfig"
          /\ log' = Append(log, <<"getConfig">>)
          /\ UNCHANGED err
  /\ UNCHANGED <<repoVars, config, l, value, ret, created>>

\* Config.getConfig settled.  The handler computes the branch name and looks
\* up the sha (startRelease, when given) or the base branch.
StartConfigResolved ==
  /\ pc = "start.getConfig"
  /\ \/ /\ Reject("ConfigFailure")
        /\ UNCHANGED <<l, log, value>>
     \/ /\ LET names == StartNames(call.kind, config, call.version) IN
             /\ l' = [l EXCEPT !.newBranch = names.newBranch,
                               !.baseBranch = names.baseBranch]
             /\ IF StartUsesSha(call.kind, call.sha)
                THEN /\ pc' = "start.lookupCommit"
                     /\ value' = call.sha
                     /\ log' = Append(log, <<"getCommit", call.sha>>)
                ELSE /\ pc' = "start.lookupBranch"
                     /\ UNCHANGED value
                     /\ log' = Append(log, <<"lookup", names.baseBranch>>)
        /\ UNCHANGED err
  /\ UNCHANGED <<repoVars, config, call, ret, pre, created>>

\* The base branch lookup settled; its target commit is looked up.
StartBaseBranchResolved ==
  /\ pc = "start.lookupBranch"
  /\ IF BranchExists(l.baseBranch)
     THEN /\ pc' = "start.lookupCommit"
          /\ value' = branches[l.baseBranch]
          /\ log' = Append(log, <<"getCommit", branches[l.baseBranch]>>)
          /\ UNCHANGED err
     ELSE /\ Reject("BranchNotFound")
          /\ UNCHANGED <<value, log>>
  /\ UNCHANGED <<repoVars, config, call, l, ret, pre, created>>

\* NodeGit.Commit.lookup settled; repo.createBranch(name, commit) is called.
StartCommitResolved ==
  /\ pc = "start.lookupCommit"
  /\ IF value \in DOMAIN parents
     THEN /\ pc' = "start.createBranch"
          /\ log' = Append(log, <<"createBranch", l.newBranch, value>>)
          /\ UNCHANGED err
     ELSE /\ Reject("CommitResolutionFailure")
          /\ UNCHANGED log
  /\ UNCHANGED <<repoVars, config, call, l, value, ret, pre, created>>

\* repo.createBranch settled (it fails if the name is taken); the handler reads
\* HEAD and checks the new branch out.
StartBranchCreated ==
  /\ pc = "start.createBranch"
  /\ IF BranchExists(l.newBranch)
     THEN /\ Reject("BranchCreationFailure")
          /\ UNCHANGED <<branches, l, log>>
     ELSE /\ branches' = [n \in DOMAIN branches \cup {l.newBranch} |->
                            IF n = l.newBranch THEN value ELSE branches[n]]
          /\ l' = [l EXCEPT !.oldHead = branches[head]]
          /\ log' = Append(log, <<"checkoutBranch", l.newBranch>>)
          /\ pc' = "start.checkout"
          /\ UNCHANGED err
  /\ UNCHANGED <<head, tags, parents, config, call, value, ret, pre, created>>

\* repo.checkoutBranch settled; HEAD is read again and postCheckoutHook is
\* called with the old and the new HEAD target.
StartCheckedOut ==
  /\ pc = "start.checkout"
  /\ \/ /\ Reject("CheckoutFailure")
        /\ UNCHANGED <<head, log>>
     \/ /\ head' = l.newBranch
        /\ log' = Append(log, <<"postCheckoutHook", l.oldHead, branches[l.newBranch]>>)
        /\ pc' = "start.hook"
        /\ UNCHANGED err
  /\ UNCHANGED <<branches, tags, parents, config, call, l, value, ret, pre, created>>

\* Mutant: the last handler is missing, so start resolves with what the hook
\* handler returned instead of the branch.
StartResult_Nothing(newBranch, hookResult) == ""

\* .then(() => hotfixBranch): of the new branch and the hook's result, start
\* resolves with the former.
StartResult(newBranch, hookResult) == newBranch

\* postCheckoutHook settled; if it resolved, the last handler resolves with the
\* new branch.
StartHookSettled ==
  /\ pc = "start.hook"
  /\ \/ /\ call.hooks
        /\ Reject("CallbackError")
        /\ UNCHANGED <<created, log>>
     \/ /\ \E r \in HookResults(call.hooks, l.oldHead) :
             /\ created' = StartResult(l.newBranch, r)
             /\ log' = Append(log, <<"postCheckoutHook.done", r>>)
        /\ pc' = "done"
        /\ UNCHANGED err
  /\ UNCHANGED <<repoVars, config, call, l, value, ret, pre>>

(***************************************************************************)
(* What the log and the snapshot say about the call                        *)
(***************************************************************************)

FinishDone == call.fn = "finish" /\ pc = "done"

\* The three commits have been resolved and the cancellation decisions taken.
CommitsResolved == call.fn = "finish" /\ l.workflowCommit # Undefined

\* The indices of the log entries of one kind about one branch.
Entries(what, branch) ==
  {i \in DOMAIN log : log[i][1] = what /\ log[i][2] = branch}

\* The indices of the log entries of one kind.
EntriesOf(what) == {i \in DOMAIN log : log[i][1] = what}

MergeCalled(target) == Entries("merge", target) # {}

MergeDone(target) == Entries("merge.done", target) # {}

\* The commit the merge into `target` created.
MergeCommitOf(target) == log[CHOOSE i \in Entries("merge.done", target) : TRUE][3]

\* The name the tag of the call must have: tagPrefix + version.
ExpectedTagName == pre.config["gitflow.prefix.versiontag"] \o call.version

Tagged == EntriesOf("Tag.create.done") # {}

Next ==
  \/ \E kind \in Kinds, repo \in BOOLEAN, version \in Versions,
        keepBranch \in BOOLEAN, onlyMaster \in BOOLEAN, hooks \in BOOLEAN :
       FinishCall(kind, repo, version, keepBranch, onlyMaster, hooks)
  \/ FinishConfigResolved
  \/ FinishBranchesResolved
  \/ FinishCommitsResolved
  \/ FinishBeforeDevelopSettled
  \/ FinishDevelopMerged
  \/ FinishPostDevelopSettled
  \/ FinishDevelopStepDone
  \/ FinishBeforeMasterSettled
  \/ FinishMasterMerged
  \/ FinishPostMasterSettled
  \/ FinishTagged
  \/ SafelyDeleteCheckout
  \/ SafelyDeleteHookSettled
  \/ SafelyDeleteBranch
  \/ FinishReturn
  \/ \E kind \in Kinds, repo \in BOOLEAN, version \in Versions,
        sha \in Shas, hooks \in BOOLEAN :
       StartCall(kind, repo, version, sha, hooks)
  \/ StartConfigResolved
  \/ StartBaseBranchResolved
  \/ StartCommitResolved
  \/ StartBranchCreated
  \/ StartCheckedOut
  \/ StartHookSettled

Spec == Init /\ [][Next]_vars

\* A configuration in which every key has another value.
ChangedConfig ==
  [k \in DOMAIN DefaultConfig |->
     CASE k = "gitflow.branch.master" -> "main"
       [] k = "gitflow.branch.develop" -> "dev"
       [] k = "gitflow.prefix.hotfix" -> "fix/"
       [] k = "gitflow.prefix.release" -> "rel/"
       [] k = "gitflow.prefix.versiontag" -> "version-"]

\* Another writer changes the gitflow configuration while a call is in progress.
ConfigChanged ==
  /\ pc \notin {"idle", "done", "failed"}
  /\ config = DefaultConfig
  /\ config' = ChangedConfig
  /\ UNCHANGED <<repoVars, call, pc, l, value, ret, created, err, log, pre>>

NextConfig == Next \/ ConfigChanged

\* The repositories whose develop branch is at the first commit.
InitConfig == Init /\ branches["develop"] = 1

\* The calls, with the configuration changing under them.
SpecConfig == InitConfig /\ [][NextConfig]_vars

(***************************************************************************)
(* Claims                                                                  *)
(***************************************************************************)

\* finishHotfix(repo, "1.0", {}) on a repository where master, develop and
\* hotfix/1.0 point at three different commits.
C1_Scenario ==
  /\ call.fn = "finish" /\ call.kind = "hotfix" /\ call.repo /\ call.version = "1.0"
  /\ ~call.keepBranch /\ ~call.onlyMaster /\ ~call.hooks
  /\ "hotfix/1.0" \in DOMAIN pre.branches
  /\ pre.branches["master"] # pre.branches["develop"]
  /\ pre.branches["master"] # pre.branches["hotfix/1.0"]
  /\ pre.branches["develop"] # pre.branches["hotfix/1.0"]

\* C1: with master at M, develop at D and hotfix/1.0 at H, pairwise distinct, a
\* successful finishHotfix(repo, "1.0", {}) has merged hotfix/1.0 into develop
\* and into master, created tag v1.0 at the new master commit, deleted
\* hotfix/1.0, and returns the develop-merge commit.
C1_EndToEnd ==
  (C1_Scenario /\ pc = "done") =>
    /\ parents[branches["develop"]] =
         <<pre.branches["develop"], pre.branches["hotfix/1.0"]>>
    /\ parents[branches["master"]] =
         <<pre.branches["master"], pre.branches["hotfix/1.0"]>>
    /\ "v1.0" \in DOMAIN tags
    /\ tags["v1.0"] = branches["master"]
    /\ "hotfix/1.0" \notin DOMAIN branches
    /\ ret = branches["develop"]

\* C2: in finish, when develop's commit equals the workflow branch's commit at
\* resolution time, no develop merge is performed, postDevelopMergeCallback is
\* never invoked, and finish returns undefined.
C2_DevelopNoOpSkipped ==
  (CommitsResolved /\ l.developCommit = l.workflowCommit) =>
    /\ ~MergeCalled(l.developBranchName)
    /\ EntriesOf("postDevelopMergeCallback") = {}
    /\ branches[l.developBranchName] = pre.branches[l.developBranchName]
    /\ (pc = "done" => ret = Undefined)

\* A finish that succeeded with develop at the workflow commit while the master
\* merge was performed.
C2_Witness ==
  /\ FinishDone
  /\ l.developCommit = l.workflowCommit
  /\ ~call.onlyMaster
  /\ MergeDone(l.masterBranchName)

\* C3: in finish, when master's commit equals the workflow branch's commit, no
\* master merge is performed and postMasterMergeCallback is not invoked, yet the
\* tag tagPrefix + version is created and points at master's existing commit.
C3_MasterNoOpStillTagged ==
  (CommitsResolved /\ l.masterCommit = l.workflowCommit) =>
    /\ ~MergeCalled(l.masterBranchName)
    /\ EntriesOf("postMasterMergeCallback") = {}
    /\ branches[l.masterBranchName] = pre.branches[l.masterBranchName]
    /\ (pc = "done" => Tagged)
    /\ Tagged => /\ ExpectedTagName \in DOMAIN tags
                 /\ tags[ExpectedTagName] = pre.branches[l.masterBranchName]

\* A finish that succeeded with master at the workflow commit after a develop
\* merge.
C3_Witness ==
  /\ FinishDone
  /\ l.masterCommit = l.workflowCommit
  /\ MergeDone(l.developBranchName)
  /\ ExpectedTagName \in DOMAIN tags

\* C4: with onlyMaster = true finish never performs the develop merge, whatever
\* the three commits are; develop's target is unchanged, and the master merge
\* is decided by the commits alone.
C4_OnlyMasterSkipsDevelop ==
  (call.fn = "finish" /\ call.onlyMaster) =>
    /\ ~MergeCalled(pre.config["gitflow.branch.develop"])
    /\ Entries("beforeMergeCallback", pre.config["gitflow.branch.develop"]) = {}
    /\ branches["develop"] = pre.branches["develop"]
    /\ CommitsResolved =>
         (l.cancelMasterMerge <=> (l.masterCommit = l.workflowCommit))
    /\ (pc = "done" /\ l.masterCommit # l.workflowCommit) =>
         MergeDone(l.masterBranchName)

\* A finish with onlyMaster that succeeded, develop and the workflow branch
\* being at different commits, and merged into master.
C4_Witness ==
  /\ FinishDone
  /\ call.onlyMaster
  /\ l.developCommit # l.workflowCommit
  /\ MergeDone(l.masterBranchName)

\* C5: after a successful finish the workflow branch no longer resolves if
\* keepBranch is false or absent, and still resolves, at the commit it had
\* before the call, if keepBranch is true; whichever merges were performed.
C5_BranchCleanup ==
  FinishDone =>
    IF call.keepBranch
    THEN /\ l.workflowBranchName \in DOMAIN branches
         /\ branches[l.workflowBranchName] = pre.branches[l.workflowBranchName]
    ELSE l.workflowBranchName \notin DOMAIN branches

\* A finish without keepBranch that succeeded after both merges.
C5_Witness ==
  /\ FinishDone
  /\ ~call.keepBranch
  /\ MergeDone(l.developBranchName)
  /\ MergeDone(l.masterBranchName)

\* A finish with keepBranch that succeeded with both merges skipped.
C5_WitnessKept ==
  /\ FinishDone
  /\ call.keepBranch
  /\ l.cancelDevelopMerge
  /\ l.cancelMasterMerge
\* Every entry of the first kind about the branch has an earlier entry of the
\* second kind about it.
Preceded(what, branch, by) ==
  \A i \in Entries(what, branch) : \E j \in Entries(by, branch) : j < i

\* C6: in a finish that performs both merges, beforeMergeCallback(develop,
\* workflow) completes before the develop merge runs, the develop merge and
\* postDevelopMergeCallback complete before beforeMergeCallback(master,
\* workflow) starts, and that callback completes before the master merge runs.
C6_MergeOrder ==
  call.fn = "finish" =>
    /\ Preceded("beforeMergeCallback.done", l.developBranchName, "beforeMergeCallback")
    /\ Preceded("merge", l.developBranchName, "beforeMergeCallback.done")
    /\ Preceded("merge.done", l.developBranchName, "merge")
    /\ \A p \in EntriesOf("postDevelopMergeCallback.done") :
         \E m \in Entries("merge.done", l.developBranchName) : m < p
    /\ \A b \in Entries("beforeMergeCallback", l.masterBranchName) :
         ~l.cancelDevelopMerge =>
           \E p \in EntriesOf("postDevelopMergeCallback.done") : p < b
    /\ Preceded("beforeMergeCallback.done", l.masterBranchName, "beforeMergeCallback")
    /\ Preceded("merge", l.masterBranchName, "beforeMergeCallback.done")

\* A finish with callbacks passed by the caller that performed both merges.
C6_Witness ==
  /\ FinishDone
  /\ call.hooks
  /\ MergeDone(l.developBranchName)
  /\ MergeDone(l.masterBranchName)

RepositoryUnchanged ==
  /\ branches = pre.branches
  /\ head = pre.head
  /\ tags = pre.tags

\* C7: start and finish fail with MissingRepository when no repository is
\* passed, and with MissingVersion when a repository but no version is passed;
\* nothing has been read, looked up, called back or changed by then.
C7_Guards ==
  /\ (call.fn # "none" /\ ~call.repo) =>
       /\ pc = "failed" /\ err = "MissingRepository"
       /\ log = <<>> /\ RepositoryUnchanged
  /\ (call.fn # "none" /\ call.repo /\ call.version = "") =>
       /\ pc = "failed" /\ err = "MissingVersion"
       /\ log = <<>> /\ RepositoryUnchanged

\* A start that was passed a repository and no version.
C7_Witness ==
  /\ call.fn = "start" /\ call.repo /\ call.version = ""
  /\ pc = "failed"

\* A finish that was passed no repository.
C7_WitnessFinish ==
  /\ call.fn = "finish" /\ ~call.repo
  /\ pc = "failed"

\* What postDevelopMergeCallback resolved with.
PostDevelopResult ==
  log[CHOOSE i \in EntriesOf("postDevelopMergeCallback.done") : TRUE][2]

\* What postMasterMergeCallback resolved with.
PostMasterResult ==
  log[CHOOSE i \in EntriesOf("postMasterMergeCallback.done") : TRUE][2]

LastEntry == log[Len(log)]

MasterMergeFailed ==
  /\ pc = "failed" /\ log # <<>>
  /\ LastEntry[1] = "merge" /\ LastEntry[2] = l.masterBranchName

TagCreationFailed ==
  /\ pc = "failed" /\ log # <<>>
  /\ LastEntry[1] = "Tag.create"

\* C10: if the master merge or the tag creation fails after the develop merge
\* landed, finish fails with that error, develop still points at the
\* develop-merge commit, and no later step runs: no tag after a failed merge,
\* no branch deletion.
C10_FailFast ==
  (call.fn = "finish" /\ MergeDone(l.developBranchName)
     /\ (MasterMergeFailed \/ TagCreationFailed)) =>
    /\ MasterMergeFailed => (err = "MergeFailure" /\ EntriesOf("Tag.create") = {})
    /\ TagCreationFailed => err = "TagCreationFailure"
    /\ branches[l.developBranchName] = MergeCommitOf(l.developBranchName)
    /\ tags = pre.tags
    /\ EntriesOf("safelyDeleteBranch") = {}
    /\ l.workflowBranchName \in DOMAIN branches
    /\ ret = Undefined

\* A finish whose master merge failed after the develop merge.
C10_Witness ==
  /\ call.fn = "finish"
  /\ MergeDone(l.developBranchName)
  /\ MasterMergeFailed

\* A finish whose tag creation failed after both merges.
C10_WitnessTag ==
  /\ call.fn = "finish"
  /\ MergeDone(l.developBranchName)
  /\ MergeDone(l.masterBranchName)
  /\ TagCreationFailed
StartDone == call.fn = "start" /\ pc = "done"

\* The name start must give the new branch, and the configured base branch.
ExpectedStartBranch ==
  pre.config[IF call.kind = "hotfix" THEN "gitflow.prefix.hotfix"
             ELSE "gitflow.prefix.release"] \o call.version

ExpectedBaseBranch ==
  pre.config[IF call.kind = "hotfix" THEN "gitflow.branch.master"
             ELSE "gitflow.branch.develop"]

\* C11 as stated: after startRelease and after startHotfix the new branch
\* points at options.sha when a sha was passed, and at the base branch's target
\* otherwise.
C11_Original ==
  StartDone =>
    /\ created = ExpectedStartBranch
    /\ branches[created] = IF call.sha # Undefined THEN call.sha
                           ELSE pre.branches[ExpectedBaseBranch]

\* C11: after startRelease the new branch release-prefix + version points at
\* options.sha when a sha was passed and at develop's target otherwise; after
\* startHotfix the new branch hotfix-prefix + version points at master's
\* target, whether or not a sha was passed.
C11_StartCommit ==
  StartDone =>
    /\ created = ExpectedStartBranch
    /\ branches[created] = IF call.kind = "release" /\ call.sha # Undefined
                           THEN call.sha
                           ELSE pre.branches[ExpectedBaseBranch]

\* A startRelease that succeeded with a sha other than develop's commit.
C11_Witness ==
  /\ StartDone
  /\ call.kind = "release"
  /\ call.sha # Undefined
  /\ call.sha # pre.branches["develop"]

\* A startHotfix that succeeded although a sha other than master's commit was
\* passed.
C11_WitnessHotfix ==
  /\ StartDone
  /\ call.kind = "hotfix"
  /\ call.sha # Undefined
  /\ call.sha # pre.branches["master"]
C13_Original ==
  (call.fn = "start" /\ EntriesOf("postCheckoutHook") # {}
     /\ pc \in {"done", "failed"}) =>
    /\ pc = "done"
    /\ created = ExpectedStartBranch

\* C13: in start, postCheckoutHook is invoked exactly once, after the new branch
\* was created and checked out, with the HEAD target before and after the
\* checkout; whatever value the hook resolves with, start resolves with the new
\* branch; a start that fails after the hook was invoked fails with the hook's
\* error, the new branch existing and checked out.
C13_PostCheckoutHook ==
  call.fn = "start" =>
    /\ Cardinality(EntriesOf("postCheckoutHook")) <= 1
    /\ \A i \in EntriesOf("postCheckoutHook") :
         /\ \E c \in Entries("createBranch", l.newBranch) :
              \E k \in Entries("checkoutBranch", l.newBranch) : c < k /\ k < i
         /\ l.newBranch \in DOMAIN branches
         /\ head = l.newBranch
         /\ log[i][2] = pre.branches[pre.head]
         /\ log[i][3] = branches[l.newBranch]
    /\ pc = "done" =>
         /\ Cardinality(EntriesOf("postCheckoutHook")) = 1
         /\ created = ExpectedStartBranch
         /\ created \in DOMAIN branches
    /\ (pc = "failed" /\ EntriesOf("postCheckoutHook") # {}) =>
         (call.hooks /\ err = "CallbackError")

\* A start whose hook resolved with a value and that resolved with the branch.
C13_Witness ==
  /\ StartDone
  /\ \E i \in EntriesOf("postCheckoutHook.done") : log[i][2] # Undefined
  /\ created = ExpectedStartBranch

\* A start that failed because its hook rejected.
C13_WitnessRejected ==
  /\ call.fn = "start" /\ pc = "failed"
  /\ EntriesOf("postCheckoutHook") # {}
\* The place of a handler of finish in the pipeline: config resolved, branches
\* resolved, commits resolved, develop merge decided, master merge decided,
\* tagged, cleaned up, done.
Rank(p) ==
  CASE p = "idle" -> 0
    [] p = "finish.getConfig" -> 1
    [] p = "finish.lookup" -> 2
    [] p = "finish.getCommit" -> 3
    [] p = "finish.beforeDevelop" -> 4
    [] p = "finish.mergeDevelop" -> 5
    [] p = "finish.postDevelop" -> 6
    [] p = "finish.developDone" -> 7
    [] p = "finish.beforeMaster" -> 8
    [] p = "finish.mergeMaster" -> 9
    [] p = "finish.postMaster" -> 10
    [] p = "finish.tag" -> 11
    [] p = "finish.delete" -> 12
    [] p = "finish.deleteHook" -> 13
    [] p = "finish.deleteBranch" -> 14
    [] p = "finish.return" -> 15
    [] p = "done" -> 16
    [] p = "failed" -> 17
    [] OTHER -> 0

\* No operation of finish is called twice, the develop merge is over before the
\* master merge starts, the tag is created after both merge steps, and the
\* branch is deleted after the tag exists.
C14_StepsOnceInOrder ==
  call.fn = "finish" =>
    /\ \A what \in {"getConfig", "Tag.create", "safelyDeleteBranch", "deleteBranch.done"} :
         Cardinality(EntriesOf(what)) <= 1
    /\ \A b \in {l.developBranchName, l.masterBranchName} :
         /\ Cardinality(Entries("beforeMergeCallback", b)) <= 1
         /\ Cardinality(Entries("merge", b)) <= 1
    /\ \A m \in Entries("merge", l.masterBranchName) :
         \A d \in Entries("merge", l.developBranchName) :
           \E e \in Entries("merge.done", l.developBranchName) : d < e /\ e < m
    /\ \A t \in EntriesOf("Tag.create") :
         /\ CommitsResolved
         /\ ~l.cancelDevelopMerge =>
              \E e \in EntriesOf("postDevelopMergeCallback.done") : e < t
         /\ ~l.cancelMasterMerge =>
              \E e \in EntriesOf("postMasterMergeCallback.done") : e < t
    /\ \A x \in EntriesOf("safelyDeleteBranch") :
         /\ \E t \in EntriesOf("Tag.create.done") : t < x
         /\ ExpectedTagName \in DOMAIN tags

\* C14: a finish call moves through the pipeline config resolved, branches
\* resolved, commits resolved, develop merge decided, master merge decided,
\* tagged, cleaned up, done, only forwards: every step of the call takes it to
\* a later stage or fails it, no operation runs twice, the develop merge is
\* over before the master merge starts, the tag is created after both merge
\* steps and the branch is deleted only after the tag exists.
C14_Monotonic ==
  /\ []C14_StepsOnceInOrder
  /\ [][call'.fn = "finish" => Rank(pc') > Rank(pc)]_vars

\* A finish that went through both merges, the tag and the deletion.
C14_Witness ==
  /\ FinishDone
  /\ MergeDone(l.developBranchName)
  /\ MergeDone(l.masterBranchName)
  /\ EntriesOf("deleteBranch.done") # {}
\* The names a finish call takes from the configuration cfg.
SnapshotNames(cfg) ==
  [develop |-> cfg["gitflow.branch.develop"],
   master |-> cfg["gitflow.branch.master"],
   workflow |-> cfg[IF call.kind = "hotfix" THEN "gitflow.prefix.hotfix"
                    ELSE "gitflow.prefix.release"] \o call.version,
   tag |-> cfg["gitflow.prefix.versiontag"] \o call.version]

\* Every name in the log entry e is the one the configuration cfg gives.
NamesFrom(e, cfg) ==
  LET n == SnapshotNames(cfg) IN
    /\ e[1] = "lookup" => e[2] \in {n.develop, n.workflow, n.master}
    /\ e[1] \in {"beforeMergeCallback", "merge"} =>
         (e[2] \in {n.develop, n.master} /\ e[3] = n.workflow)
    /\ e[1] \in {"beforeMergeCallback.done", "merge.done"} =>
         e[2] \in {n.develop, n.master}
    /\ e[1] \in {"Tag.create", "Tag.create.done"} => e[3] = n.tag
    /\ e[1] = "safelyDeleteBranch" => (e[2] = n.workflow /\ e[3] = n.master)
    /\ e[1] = "checkoutBranch" => e[2] = n.master
    /\ e[1] = "deleteBranch.done" => e[2] = n.workflow

\* C15: a finish call reads the configuration once, at entry, and every name it
\* uses afterwards (the three branch names of the lookups, of the merge
\* callbacks, of the merges and of the deletion, and the tag name) is the one
\* that read gave, even if the configuration changes during the call.
C15_OneConfigSnapshot ==
  call.fn = "finish" =>
    /\ Cardinality(EntriesOf("getConfig")) <= 1
    /\ Cardinality(EntriesOf("getConfig.done")) <= 1
    /\ (log # <<>> => log[1][1] = "getConfig")
    /\ \A i \in EntriesOf("getConfig.done") :
         \A j \in DOMAIN log : NamesFrom(log[j], log[i][2])
    /\ \A j \in DOMAIN log :
         log[j][1] \in {"lookup", "merge", "Tag.create"} =>
           \E i \in EntriesOf("getConfig.done") : i < j

\* A finish that performed both merges and deleted the branch while the
\* configuration was changed after it had been read.
C15_Witness ==
  /\ FinishDone
  /\ config # log[CHOOSE i \in EntriesOf("getConfig.done") : TRUE][2]
  /\ MergeDone(l.developBranchName)
  /\ MergeDone(l.masterBranchName)
  /\ EntriesOf("deleteBranch.done") # {}
\* The deletion at log index i came after the checkout of the master branch
\* and the postCheckoutHook call with the old and the new HEAD target.
CheckedOutBefore(i) ==
  \E j \in 1..(i - 1), k \in 1..(i - 1) :
    /\ j < k
    /\ log[j][1] = "checkoutBranch"
    /\ log[j][2] = l.masterBranchName
    /\ log[k][1] = "postCheckoutHook"
    /\ log[k][2] = pre.branches[l.workflowBranchName]
    /\ log[k][3] = branches[l.masterBranchName]

\* C16: HEAD always refers to an existing branch; when finish deletes the
\* workflow branch HEAD pointed at, the master branch was checked out and
\* postCheckoutHook called with the old and new HEAD targets before the
\* deletion, and HEAD is on the master branch afterwards.
C16_NoDanglingHead ==
  /\ head \in DOMAIN branches
  /\ (call.fn = "finish" /\ pre.head = l.workflowBranchName) =>
       \A i \in EntriesOf("deleteBranch.done") :
         CheckedOutBefore(i) /\ head = l.masterBranchName

\* A successful finish that deleted the workflow branch HEAD pointed at.
C16_Witness ==
  /\ FinishDone
  /\ pre.head = l.workflowBranchName
  /\ EntriesOf("deleteBranch.done") # {}
  /\ l.workflowBranchName \notin DOMAIN branches
\* The result a hook settled with, as the log has it (Undefined if it has not).
HookResultIn(what) ==
  IF EntriesOf(what) = {} THEN Undefined
  ELSE log[CHOOSE i \in EntriesOf(what) : TRUE][2]

\* The develop part of the finish pipeline.
PipelineDevelop(dev, wf, cancelDevelop, c1, rD) ==
  IF cancelDevelop THEN <<>>
  ELSE << <<"beforeMergeCallback", dev, wf>>, <<"beforeMergeCallback.done", dev>>,
          <<"merge", dev, wf>>, <<"merge.done", dev, c1>>,
          <<"postDevelopMergeCallback", c1>>,
          <<"postDevelopMergeCallback.done", rD>> >>

\* The master part of the finish pipeline, up to the creation of the tag.
PipelineMaster(mas, wf, tag, cancelMaster, m, c2, rM) ==
  IF cancelMaster
  THEN << <<"Tag.create", m, tag>>, <<"Tag.create.done", m, tag>> >>
  ELSE << <<"beforeMergeCallback", mas, wf>>, <<"beforeMergeCallback.done", mas>>,
          <<"merge", mas, wf>>, <<"merge.done", mas, c2>>,
          <<"postMasterMergeCallback", c2>>,
          <<"postMasterMergeCallback.done", rM>>,
          <<"Tag.create", rM, tag>>, <<"Tag.create.done", rM, tag>> >>

\* The cleanup part of the finish pipeline.
PipelineCleanup(mas, wf, keepBranch, headOnWorkflow, w, masterNow) ==
  IF keepBranch THEN <<>>
  ELSE << <<"safelyDeleteBranch", wf, mas>> >>
       \o (IF headOnWorkflow
           THEN << <<"checkoutBranch", mas>>, <<"postCheckoutHook", w, masterNow>> >>
           ELSE <<>>)
       \o << <<"deleteBranch.done", wf>> >>

\* The operations of a finish that nothing stops, as a function of the
\* configuration, the workflow branch's name wf, the version, the branches bs
\* and HEAD hd at entry, the options and the results rD and rM of the two
\* post-merge callbacks.  Whether the call is finishHotfix or finishRelease is
\* not among its arguments.
Pipeline(cfg, wf, version, bs, hd, keepBranch, onlyMaster, rD, rM) ==
  LET dev == cfg["gitflow.branch.develop"]
      mas == cfg["gitflow.branch.master"]
      tag == cfg["gitflow.prefix.versiontag"] \o version
      entry == << <<"getConfig">>, <<"getConfig.done", cfg>>,
                  <<"lookup", dev>>, <<"lookup", wf>>, <<"lookup", mas>> >>
  IN
  IF ~({dev, wf, mas} \subseteq DOMAIN bs) THEN entry
  ELSE LET d == bs[dev]
           w == bs[wf]
           m == bs[mas]
           cancelDevelop == onlyMaster \/ d = w
           cancelMaster == m = w
           c1 == NumCommits + 1
           c2 == IF cancelDevelop THEN NumCommits + 1 ELSE NumCommits + 2
       IN entry
          \o << <<"getCommit", d>>, <<"getCommit", w>>, <<"getCommit", m>> >>
          \o PipelineDevelop(dev, wf, cancelDevelop, c1, rD)
          \o PipelineMaster(mas, wf, tag, cancelMaster, m, c2, rM)
          \o PipelineCleanup(mas, wf, keepBranch, hd = wf, w,
                             IF cancelMaster THEN m ELSE c2)

\* The value a finish that nothing stops resolves with.
PipelineResult(cfg, wf, bs, onlyMaster, rD) ==
  IF onlyMaster \/ bs[cfg["gitflow.branch.develop"]] = bs[wf] THEN Undefined
  ELSE rD

SameEntry(a, b) ==
  /\ Len(a) = Len(b)
  /\ a[1] = b[1]
  /\ \A i \in 2..Len(a) : a[i] = b[i]

\* The pipeline of the call in progress.
CallPipeline ==
  Pipeline(pre.config, l.workflowBranchName, call.version, pre.branches, pre.head,
           call.keepBranch, call.onlyMaster,
           HookResultIn("postDevelopMergeCallback.done"),
           HookResultIn("postMasterMergeCallback.done"))

\* C17: finishHotfix and finishRelease are one pipeline up to the prefix key.
\* The workflow branch is named by the hotfix prefix in the one and the release
\* prefix in the other, and from there the operations a finish performs, in
\* order, and the value it returns are those of Pipeline, a function of the
\* branch's name, the repository, the version, the options and the callbacks'
\* results that does not depend on which of the two is called: two calls that
\* agree on these perform the same sequence and return the same outcome.
C17_SamePipeline ==
  (call.fn = "finish" /\ log # <<>>) =>
    /\ l.workflowBranchName \in
         {"", pre.config[IF call.kind = "hotfix" THEN "gitflow.prefix.hotfix"
                         ELSE "gitflow.prefix.release"] \o call.version}
    /\ Len(log) <= Len(CallPipeline)
    /\ \A i \in DOMAIN log : SameEntry(log[i], CallPipeline[i])
    /\ pc = "done" =>
         /\ Len(log) = Len(CallPipeline)
         /\ ret = PipelineResult(pre.config, l.workflowBranchName, pre.branches,
                                 call.onlyMaster,
                                 HookResultIn("postDevelopMergeCallback.done"))

\* A finishRelease that performed both merges, with callbacks of the caller,
\* and deleted the release branch HEAD was on.
C17_Witness ==
  /\ FinishDone
  /\ call.kind = "release"
  /\ call.hooks
  /\ pre.head = l.workflowBranchName
  /\ MergeDone(l.developBranchName)
  /\ MergeDone(l.masterBranchName)
  /\ EntriesOf("deleteBranch.done") # {}
  /\ ret # Undefined
\* The name of the workflow branch the finish call is about.
WorkflowBranch == FinishNames(call.kind, pre.config, call.version).workflowBranchName

\* A finish failed before a tag was created.
FailedBeforeTag == call.fn = "finish" /\ pc = "failed" /\ ~Tagged

\* C18: in finish, no branch but the workflow branch is ever deleted, and the
\* workflow branch is deleted only after the tag of the call has been created
\* and only if keepBranch is not set; if finish fails before a tag is created
\* (at the guards, the config read, a lookup, a callback, a merge or the tag
\* creation), every branch of the repository at entry still exists and the
\* workflow branch points where it did, whatever keepBranch is.
C18_DeletedOnlyAfterTag ==
  call.fn = "finish" =>
    /\ \A n \in DOMAIN pre.branches \ DOMAIN branches :
         /\ n = WorkflowBranch
         /\ ~call.keepBranch
         /\ ExpectedTagName \in DOMAIN tags
         /\ \A i \in Entries("deleteBranch.done", n) :
              \E j \in EntriesOf("Tag.create.done") : j < i
    /\ EntriesOf("safelyDeleteBranch") # {} => Tagged
    /\ FailedBeforeTag =>
         /\ DOMAIN pre.branches \subseteq DOMAIN branches
         /\ WorkflowBranch \in DOMAIN pre.branches =>
              branches[WorkflowBranch] = pre.branches[WorkflowBranch]
         /\ EntriesOf("deleteBranch.done") = {}

\* A finish without keepBranch whose tag creation failed after both merges:
\* the workflow branch is still there.
C18_Witness ==
  /\ FailedBeforeTag
  /\ ~call.keepBranch
  /\ TagCreationFailed
  /\ MergeDone(l.developBranchName)
  /\ MergeDone(l.masterBranchName)
  /\ WorkflowBranch \in DOMAIN branches

\* A finish that deleted the workflow branch after creating the tag.
C18_WitnessDeleted ==
  /\ FinishDone
  /\ WorkflowBranch \in DOMAIN pre.branches
  /\ WorkflowBranch \notin DOMAIN branches
  /\ ExpectedTagName \in DOMAIN tags
\* beforeMergeCallback was called once for the merge into target, with
\* (target, workflow branch), and had resolved when the merge was called.
CallbackBeforeMerge(target) ==
  /\ Cardinality(Entries("beforeMergeCallback", target)) = 1
  /\ \A i \in Entries("beforeMergeCallback", target) :
       /\ log[i][3] = l.workflowBranchName
       /\ \A k \in Entries("merge", target) :
            \E j \in Entries("beforeMergeCallback.done", target) : i < j /\ j < k

\* Neither the callback nor the merge was called for target.
NothingFor(target) ==
  /\ Entries("beforeMergeCallback", target) = {}
  /\ Entries("merge", target) = {}

\* At entry develop, master and the workflow branch were at one commit.
AllAtOneCommit ==
  LET dev == pre.config["gitflow.branch.develop"]
      mas == pre.config["gitflow.branch.master"]
  IN /\ {dev, mas, WorkflowBranch} \subseteq DOMAIN pre.branches
     /\ pre.branches[dev] = pre.branches[WorkflowBranch]
     /\ pre.branches[mas] = pre.branches[WorkflowBranch]

\* C19: in finish, beforeMergeCallback is called at most once for each target,
\* with (target branch name, workflow branch name); a merge that is called was
\* preceded by exactly one such call, which had resolved; for a merge that is
\* skipped (develop: onlyMaster or develop at the workflow commit; master:
\* master at the workflow commit) neither the callback nor the merge is
\* called, and a finished call has merged into every target not skipped.  When
\* develop, master and the workflow branch are at one commit, a finished call
\* has called no beforeMergeCallback and no merge, and has created the tag at
\* master's commit.
C19_CallbackPerMerge ==
  CommitsResolved =>
    /\ EntriesOf("beforeMergeCallback") \subseteq
         Entries("beforeMergeCallback", l.developBranchName)
           \cup Entries("beforeMergeCallback", l.masterBranchName)
    /\ \A target \in {l.developBranchName, l.masterBranchName} :
         LET skipped ==
               IF target = l.developBranchName
               THEN call.onlyMaster
                      \/ pre.branches[target] = pre.branches[l.workflowBranchName]
               ELSE pre.branches[target] = pre.branches[l.workflowBranchName]
         IN /\ Cardinality(Entries("beforeMergeCallback", target)) <= 1
            /\ Cardinality(Entries("merge", target)) <= 1
            /\ MergeCalled(target) => CallbackBeforeMerge(target)
            /\ skipped => NothingFor(target)
            /\ (pc = "done" /\ ~skipped) =>
                 (MergeDone(target) /\ CallbackBeforeMerge(target))
    /\ (pc = "done" /\ AllAtOneCommit) =>
         /\ EntriesOf("beforeMergeCallback") = {}
         /\ EntriesOf("merge") = {}
         /\ Tagged
         /\ ExpectedTagName \in DOMAIN tags
         /\ tags[ExpectedTagName] = pre.branches[l.masterBranchName]

\* A finished call on a repository whose three branches were at one commit.
C19_Witness ==
  /\ FinishDone
  /\ AllAtOneCommit
  /\ ~call.onlyMaster
  /\ Tagged

\* A finished call that performed both merges, each after its callback.
C19_WitnessMerged ==
  /\ FinishDone
  /\ CallbackBeforeMerge(l.developBranchName)
  /\ CallbackBeforeMerge(l.masterBranchName)
  /\ MergeDone(l.developBranchName)
  /\ MergeDone(l.masterBranchName)
  /\ call.hooks
\* beforeMergeCallback(develop, workflow) failed: the call is rejected and that
\* callback is the last operation it started.
DevelopCallbackFailed ==
  /\ call.fn = "finish" /\ pc = "failed" /\ log # <<>>
  /\ LastEntry[1] = "beforeMergeCallback"
  /\ LastEntry[2] = l.developBranchName

\* C20: if beforeMergeCallback for develop throws or rejects, finish fails with
\* that error and the repository is as the call found it: no merge into
\* develop or master was called, no commit and no tag was created, no branch
\* was deleted and HEAD did not move.
C20_DevelopCallbackFails ==
  DevelopCallbackFailed =>
    /\ err = "CallbackError"
    /\ ret = Undefined
    /\ RepositoryUnchanged
    /\ DOMAIN parents = InitialCommits
    /\ EntriesOf("merge") = {}
    /\ EntriesOf("Tag.create") = {}
    /\ EntriesOf("safelyDeleteBranch") = {}
    /\ EntriesOf("deleteBranch.done") = {}

\* A finish without keepBranch, on a repository where both merges were due,
\* whose beforeMergeCallback for develop failed.
C20_Witness ==
  /\ DevelopCallbackFailed
  /\ ~l.cancelMasterMerge
  /\ ~call.keepBranch
  /\ l.workflowBranchName \in DOMAIN branches
====
